---- MODULE Spec2Model ----
(***************************************************************************)
(* nu-explore: the entry orchestrator run_pager of crates/nu-explore/src/  *)
(* lib.rs, with the command registry it builds and the initial frame it    *)
(* hands to Pager::run.                                                    *)
(*                                                                         *)
(* One invocation of run_pager is a walk through the positions pc:         *)
(*   idle -> classify -> (try_spawn) -> run -> ran -> returned             *)
(* Every call that leaves the crate's own computation (reading a stream,   *)
(* TryCmd::spawn, crossterm's size(), Pager::run) has its outcome chosen   *)
(* by the environment.                                                     *)
(***************************************************************************)
EXTENDS Integers, Sequences, FiniteSets

(***************************************************************************)
(* Bounds of the model.                                                    *)
(***************************************************************************)
MaxStream == 2        \* longest ListStream / list value
MaxBytes == 2         \* longest ByteStream / binary value
MaxCols == 1          \* most columns collect_pipeline yields
MaxRows == 2          \* most rows collect_pipeline yields
MaxInvocations == 2   \* invocations of run_pager in one behaviour

SeqsUpTo(S, n) == UNION {[1..m -> S] : m \in 0..n}

(***************************************************************************)
(* nu_protocol::Value, as far as run_pager looks at it: one record shape   *)
(* for every variant, k being the variant's tag.                           *)
(***************************************************************************)
MkValue(k, n, bytes, cols, vals) ==
    [k |-> k, n |-> n, bytes |-> bytes, cols |-> cols, vals |-> vals]

VNothing == MkValue("nothing", 0, <<>>, <<>>, <<>>)
VInt(n) == MkValue("int", n, <<>>, <<>>, <<>>)
VBinary(bytes) == MkValue("binary", 0, bytes, <<>>, <<>>)
VRecord(cols, vals) == MkValue("record", 0, <<>>, cols, vals)
VList(vals) == MkValue("list", 0, <<>>, <<>>, vals)

ByteValues == {0, 255}
ByteSeqs == SeqsUpTo(ByteValues, MaxBytes)

Rec1 == VRecord(<<"a">>, <<VInt(1)>>)
RecNested == VRecord(<<"a">>, <<Rec1>>)
StreamElems == {VInt(1), Rec1}
Streams == SeqsUpTo(StreamElems, MaxStream)

InputValues ==
    {VNothing, VInt(1), VInt(12), Rec1, RecNested, VRecord(<<>>, <<>>)}
        \cup {VBinary(b) : b \in ByteSeqs}
        \cup {VList(s) : s \in Streams}

(***************************************************************************)
(* nu_protocol::PipelineData: Empty | Value | ListStream | ByteStream.     *)
(* Moved is the parameter after it has been consumed.                      *)
(***************************************************************************)
MkPipeline(tag, val, stream, bytes) ==
    [tag |-> tag, val |-> val, stream |-> stream, bytes |-> bytes]

Empty == MkPipeline("Empty", VNothing, <<>>, <<>>)
PValue(v) == MkPipeline("Value", v, <<>>, <<>>)
ListStream(s) == MkPipeline("ListStream", VNothing, s, <<>>)
ByteStream(b) == MkPipeline("ByteStream", VNothing, <<>>, b)
Moved == MkPipeline("Moved", VNothing, <<>>, <<>>)

Pipelines ==
    {Empty}
        \cup {PValue(v) : v \in InputValues}
        \cup {ListStream(s) : s \in Streams}
        \cup {ByteStream(b) : b \in ByteSeqs}

(***************************************************************************)
(* PagerConfig: the two fields run_pager branches on.                      *)
(***************************************************************************)
Configs == [start_in_try_mode : BOOLEAN, tail : BOOLEAN]

(***************************************************************************)
(* Result<Option<Value>> and Option<Value>.                                *)
(***************************************************************************)
None == [some |-> FALSE, val |-> VNothing]
Some(v) == [some |-> TRUE, val |-> v]

Ok(opt) == [ok |-> TRUE, some |-> opt.some, val |-> opt.val, err |-> ""]
Err(kind) == [ok |-> FALSE, some |-> FALSE, val |-> VNothing, err |-> kind]
NoResult == [ok |-> FALSE, some |-> FALSE, val |-> VNothing, err |-> "unset"]

(***************************************************************************)
(* The command registry (crate module registry).  A registry is the set of *)
(* command descriptors, the set of aliases, and the calls it has received, *)
(* in order.                                                               *)
(***************************************************************************)
NuCmd_NAME == "nu"
TableCmd_NAME == "table"
ExpandCmd_NAME == "expand"
TryCmd_NAME == "try"
HelpCmd_NAME == "help"
QuitCmd_NAME == "quit"

CommandRegistry_new == [commands |-> {}, aliases |-> {}, log |-> <<>>]

HasCommand(registry, name) == \E d \in registry.commands : d.name = name
HasAlias(registry, alias) == \E a \in registry.aliases : a.alias = alias

\* register_view / register_reactive reject a duplicate name.
Register(registry, desc) ==
    [commands |-> IF HasCommand(registry, desc.name)
                  THEN registry.commands
                  ELSE registry.commands \cup {desc},
     aliases |-> registry.aliases,
     log |-> Append(registry.log,
                    [op |-> desc.kind, name |-> desc.name,
                     stackable |-> desc.stackable, target |-> ""])]

register_command_view(registry, name, stackable) ==
    Register(registry, [name |-> name, kind |-> "view", stackable |-> stackable])

register_command_reactive(registry, name) ==
    Register(registry, [name |-> name, kind |-> "reactive", stackable |-> FALSE])

\* alias(short, canonical): many-to-one; fails if canonical is unknown, and an
\* alias that shadows a canonical name is a registration error.
registry_create_aliases(registry, alias, command) ==
    [commands |-> registry.commands,
     aliases |-> IF /\ HasCommand(registry, command)
                    /\ ~HasCommand(registry, alias)
                    /\ ~HasAlias(registry, alias)
                 THEN registry.aliases \cup {[alias |-> alias, command |-> command]}
                 ELSE registry.aliases,
     log |-> Append(registry.log,
                    [op |-> "alias", name |-> alias,
                     stackable |-> FALSE, target |-> command])]

\* resolve(token): one step of alias expansion, then the descriptor lookup.
resolve(registry, token) ==
    LET canon == IF HasAlias(registry, token)
                 THEN {a.command : a \in {b \in registry.aliases : b.alias = token}}
                 ELSE {token}
    IN {d \in registry.commands : d.name \in canon}

create_commands_try_twice(registry) ==
    LET r1 == register_command_view(registry, NuCmd_NAME, TRUE)
        r2 == register_command_view(r1, TableCmd_NAME, TRUE)
        r3 == register_command_view(r2, TryCmd_NAME, TRUE)
        r4 == register_command_view(r3, ExpandCmd_NAME, FALSE)
        r5 == register_command_view(r4, TryCmd_NAME, FALSE)
        r6 == register_command_view(r5, HelpCmd_NAME, FALSE)
    IN register_command_reactive(r6, QuitCmd_NAME)

create_commands(registry) ==
    LET r1 == register_command_view(registry, NuCmd_NAME, TRUE)
        r2 == register_command_view(r1, TableCmd_NAME, TRUE)
        r3 == register_command_view(r2, ExpandCmd_NAME, FALSE)
        r4 == register_command_view(r3, TryCmd_NAME, FALSE)
        r5 == register_command_view(r4, HelpCmd_NAME, FALSE)
    IN register_command_reactive(r5, QuitCmd_NAME)

create_aliases(registry) ==
    LET r1 == registry_create_aliases(registry, "h", HelpCmd_NAME)
        r2 == registry_create_aliases(r1, "e", ExpandCmd_NAME)
        r3 == registry_create_aliases(r2, "q", QuitCmd_NAME)
        r4 == registry_create_aliases(r3, "q!", QuitCmd_NAME)
    IN registry_create_aliases(r4, "T", TryCmd_NAME)

create_command_registry_aliases_first ==
    create_commands(create_aliases(CommandRegistry_new))

create_command_registry ==
    create_aliases(create_commands(CommandRegistry_new))

(***************************************************************************)
(* Views and pages.  A page is a view with its stackable flag; present is  *)
(* the Some of Option<Page>.                                               *)
(***************************************************************************)
BlankView ==
    [present |-> FALSE, kind |-> "none", stackable |-> FALSE,
     value |-> VNothing, bytes |-> <<>>, text |-> "",
     columns |-> <<>>, data |-> <<>>,
     orientation |-> "Top", tailed |-> FALSE, viewport |-> <<0, 0>>]

NoPage == BlankView

Page_new(view, stackable) ==
    [view EXCEPT !.present = TRUE, !.stackable = stackable]

TryView_new(value) == [BlankView EXCEPT !.kind = "Try", !.value = value]
BinaryView_new(bytes) == [BlankView EXCEPT !.kind = "Binary", !.bytes = bytes]
Preview_new(text) == [BlankView EXCEPT !.kind = "Preview", !.text = text]
HelpCmd_view == [BlankView EXCEPT !.kind = "Help"]
RecordView_new(columns, data) ==
    [BlankView EXCEPT !.kind = "Record", !.columns = columns, !.data = data]

set_top_layer_orientation(view, orientation) ==
    [view EXCEPT !.orientation = orientation]

\* RecordView::tail(w, h): scroll so that the last row is visible.
tail(view, w, h) == [view EXCEPT !.tailed = TRUE, !.viewport = <<w, h>>]

(***************************************************************************)
(* crossterm::terminal::size(): an error, or the terminal's (w, h).        *)
(***************************************************************************)
SizeNotCalled == [called |-> FALSE, ok |-> FALSE, w |-> 0, h |-> 0]
SizeErr == [called |-> TRUE, ok |-> FALSE, w |-> 0, h |-> 0]
SizeOk(w, h) == [called |-> TRUE, ok |-> TRUE, w |-> w, h |-> h]
SizeOutcomes == {SizeErr, SizeOk(80, 24), SizeOk(1, 1)}

(***************************************************************************)
(* Value::to_abbreviated_string on the values has_simple_value lets by.    *)
(***************************************************************************)
Digits == <<"0", "1", "2", "3", "4", "5", "6", "7", "8", "9">>

RECURSIVE IntToStr(_)
IntToStr(n) ==
    IF n < 10 THEN Digits[n + 1] ELSE IntToStr(n \div 10) \o Digits[(n % 10) + 1]

to_abbreviated_string(value) ==
    CASE value.k = "int" -> IntToStr(value.n)
      [] value.k = "nothing" -> ""
      [] OTHER -> "<" \o value.k \o ">"

(***************************************************************************)
(* Draining streams.  A ListStream is materialized element by element, a   *)
(* ByteStream byte by byte (a byte is 8 bits wide).                        *)
(***************************************************************************)
RECURSIVE CollectStream(_, _)
CollectStream(rest, acc) ==
    IF rest = <<>> THEN acc
    ELSE CollectStream(Tail(rest), Append(acc, Head(rest)))

RECURSIVE CollectBytes(_, _)
CollectBytes(rest, acc) ==
    IF rest = <<>> THEN acc
    ELSE CollectBytes(Tail(rest), Append(acc, Head(rest) % 256))

\* ListStream::into_value, Value::into_list, ByteStream::into_bytes
ListStream_into_value(stream) == VList(CollectStream(stream, <<>>))
Value_into_list(value) == value.vals
ByteStream_into_bytes(bytes) == CollectBytes(bytes, <<>>)

IngestOk(value) == [ok |-> TRUE, val |-> value]
IngestErr == [ok |-> FALSE, val |-> VNothing]

\* whether the try-mode match reads a stream for this input, the binary path
\* reads one, and the two together
TryReadsStream(input) == input.tag \in {"ListStream", "ByteStream"}
BinaryReadsStream(input) == input.tag = "ByteStream"

(***************************************************************************)
(* run_pager, lines 50-75: the value the Try view is seeded with.  io_ok   *)
(* is whether the stream could be read.                                    *)
(***************************************************************************)
initial_value_first_element(input, io_ok) ==
    CASE input.tag = "Empty" -> IngestOk(VNothing)
      [] input.tag = "Value" -> IngestOk(input.val)
      [] input.tag = "ListStream" ->
            IF ~io_ok THEN IngestErr
            ELSE IF input.stream = <<>> THEN IngestOk(VList(<<>>))
            ELSE IngestOk(VList(<<Head(input.stream)>>))
      [] input.tag = "ByteStream" ->
            IF io_ok THEN IngestOk(VBinary(ByteStream_into_bytes(input.bytes)))
            ELSE IngestErr

initial_value_unwrap_or_default(input, io_ok) ==
    CASE input.tag = "Empty" -> IngestOk(VNothing)
      [] input.tag = "Value" -> IngestOk(input.val)
      [] input.tag = "ListStream" ->
            IF io_ok
            THEN IngestOk(VList(Value_into_list(ListStream_into_value(input.stream))))
            ELSE IngestOk(VList(<<>>))
      [] input.tag = "ByteStream" ->
            IF io_ok THEN IngestOk(VBinary(ByteStream_into_bytes(input.bytes)))
            ELSE IngestOk(VBinary(<<>>))

initial_value(input, io_ok) ==
    CASE input.tag = "Empty" -> IngestOk(VNothing)
      [] input.tag = "Value" -> IngestOk(input.val)
      [] input.tag = "ListStream" ->
            IF io_ok
            THEN IngestOk(VList(Value_into_list(ListStream_into_value(input.stream))))
            ELSE IngestErr
      [] input.tag = "ByteStream" ->
            IF io_ok THEN IngestOk(VBinary(ByteStream_into_bytes(input.bytes)))
            ELSE IngestErr

(***************************************************************************)
(* run_pager, lines 99-103.                                                *)
(***************************************************************************)
is_record(input) == input.tag = "Value" /\ input.val.k = "record"

is_binary_stream_only(input) == input.tag = "ByteStream"

is_binary(input) ==
    \/ input.tag = "Value" /\ input.val.k = "binary"
    \/ input.tag = "ByteStream"

(***************************************************************************)
(* binary_view: the page, an error of into_bytes, or the unreachable!()    *)
(* arm.                                                                    *)
(***************************************************************************)
BinaryOutcome(panic, ok, page) == [panic |-> panic, ok |-> ok, page |-> page]

binary_view(input, io_ok) ==
    CASE input.tag = "Value" /\ input.val.k = "binary" ->
            BinaryOutcome(FALSE, TRUE,
                          Page_new(BinaryView_new(input.val.bytes), TRUE))
      [] input.tag = "ByteStream" ->
            IF io_ok
            THEN BinaryOutcome(FALSE, TRUE,
                     Page_new(BinaryView_new(ByteStream_into_bytes(input.bytes)), TRUE))
            ELSE BinaryOutcome(FALSE, FALSE, NoPage)
      [] OTHER -> BinaryOutcome(TRUE, FALSE, NoPage)

(***************************************************************************)
(* nu_common::collect_pipeline: the pipeline drained into columns and rows,*)
(* or an error.  An empty pipeline has no columns and no rows; of every    *)
(* other pipeline the model knows only that the result is a table, each    *)
(* row as wide as the columns.                                             *)
(***************************************************************************)
Cells == {VInt(1), Rec1}
Letters == <<"a", "b", "c", "d">>
ColumnNames(n) == [i \in 1..n |-> Letters[i]]

Drained(columns, data) == [ok |-> TRUE, columns |-> columns, data |-> data]
DrainErr == [ok |-> FALSE, columns |-> <<>>, data |-> <<>>]

Tables ==
    UNION {{Drained(ColumnNames(n), d) : d \in SeqsUpTo([1..n -> Cells], MaxRows)}
            : n \in 0..MaxCols}

collect_pipeline(input) ==
    IF input.tag = "Empty" THEN {Drained(<<>>, <<>>)} ELSE Tables \cup {DrainErr}

\* nu_common::has_simple_value: the one value of a one-row, one-cell table,
\* when it is neither a record nor a list.
has_simple_value(data) ==
    IF /\ Len(data) = 1
       /\ Len(data[1]) = 1
       /\ data[1][1].k \notin {"record", "list"}
    THEN Some(data[1][1])
    ELSE None

(***************************************************************************)
(* create_record_view, help_view.  size is the outcome of size(), which is *)
(* called only when config.tail holds.                                     *)
(***************************************************************************)
create_record_view_tail_any_size(columns, data, record, cfg, size) ==
    LET v0 == RecordView_new(columns, data)
        v1 == IF record THEN set_top_layer_orientation(v0, "Left") ELSE v0
        v2 == IF cfg.tail THEN tail(v1, size.w, size.h) ELSE v1
    IN Page_new(v2, TRUE)

create_record_view_never_left(columns, data, record, cfg, size) ==
    LET v0 == RecordView_new(columns, data)
        v2 == IF cfg.tail /\ size.ok THEN tail(v0, size.w, size.h) ELSE v0
    IN Page_new(v2, TRUE)

create_record_view(columns, data, record, cfg, size) ==
    LET v0 == RecordView_new(columns, data)
        v1 == IF record THEN set_top_layer_orientation(v0, "Left") ELSE v0
        v2 == IF cfg.tail /\ size.ok THEN tail(v1, size.w, size.h) ELSE v1
    IN Page_new(v2, TRUE)

help_view_none == NoPage

help_view == Page_new(HelpCmd_view, FALSE)

(***************************************************************************)
(* Pager: new, show_message, and run as the caller sees it: the optional   *)
(* exit value, or an unrecoverable terminal error.                         *)
(***************************************************************************)
Pager_new(cfg) == [message |-> ""]
show_message(pager, text) == [pager EXCEPT !.message = text]

TryBanner == "Started in :try mode. Type your Nushell command and press Enter."
HelpBanner == "For help type :help"

ExitValues == {VInt(1), Rec1}
Pager_run_outcomes ==
    {Ok(None), Err("TerminalError")} \cup {Ok(Some(v)) : v \in ExitValues}

\* `return p.run(...)` and the tail call of line 128
run_pager_return_none(pager_result) ==
    IF pager_result.ok THEN Ok(None) ELSE pager_result

run_pager_return(pager_result) == pager_result

(***************************************************************************)
(* run_pager, lines 112-128: the page of a drained pipeline.               *)
(***************************************************************************)
has_no_input(columns, data) == columns = <<>> /\ data = <<>>

RecordArm(columns, data) ==
    ~has_no_input(columns, data) /\ ~has_simple_value(data).some

drained_page(columns, data, record, cfg, size) ==
    IF has_no_input(columns, data) THEN help_view
    ELSE IF has_simple_value(data).some
    THEN Page_new(Preview_new(to_abbreviated_string(has_simple_value(data).val)), FALSE)
    ELSE create_record_view(columns, data, record, cfg, size)

(***************************************************************************)
(* State.                                                                  *)
(***************************************************************************)
VARIABLES
    pc,             \* position of run_pager: idle, classify, try_spawn, run, ran,
                    \* returned, panicked
    invocations,    \* invocations of run_pager so far
    arg,            \* the pipeline the caller passed
    input,          \* the parameter input; Moved once consumed
    config,         \* the parameter config
    p,              \* the local Pager
    commands,       \* the local CommandRegistry
    try_value,      \* the local initial_value, Some once computed
    columns,        \* the local columns
    data,           \* the local data
    drained,        \* collect_pipeline has been called
    page,           \* the page built for Pager::run
    size_result,    \* what size() gave
    ingest_failed,  \* reading the pipeline failed
    spawn_failed,   \* TryCmd::spawn returned an error
    run_calls,      \* calls of Pager::run
    run_page,       \* the page Pager::run was given
    run_commands,   \* the registry Pager::run was given
    pager_result,   \* what Pager::run returned
    result          \* what run_pager returned

vars ==
    <<pc, invocations, arg, input, config, p, commands, try_value, columns, data,
      drained, page, size_result, ingest_failed, spawn_failed, run_calls, run_page,
      run_commands, pager_result, result>>

Init ==
    /\ pc = "idle"
    /\ invocations = 0
    /\ arg = Empty
    /\ input = Empty
    /\ config = [start_in_try_mode |-> FALSE, tail |-> FALSE]
    /\ p = Pager_new(config)
    /\ commands = CommandRegistry_new
    /\ try_value = None
    /\ columns = <<>>
    /\ data = <<>>
    /\ drained = FALSE
    /\ page = NoPage
    /\ size_result = SizeNotCalled
    /\ ingest_failed = FALSE
    /\ spawn_failed = FALSE
    /\ run_calls = 0
    /\ run_page = NoPage
    /\ run_commands = CommandRegistry_new
    /\ pager_result = NoResult
    /\ result = NoResult

\* lines 32-39: the caller invokes run_pager; the pager and the registry are
\* locals built anew.
Invoke ==
    /\ pc \in {"idle", "returned"}
    /\ invocations < MaxInvocations
    /\ \E in \in Pipelines, cfg \in Configs :
          /\ arg' = in
          /\ input' = in
          /\ config' = cfg
          /\ p' = Pager_new(cfg)
    /\ commands' = create_command_registry
    /\ invocations' = invocations + 1
    /\ pc' = "classify"
    /\ try_value' = None
    /\ columns' = <<>>
    /\ data' = <<>>
    /\ drained' = FALSE
    /\ page' = NoPage
    /\ size_result' = SizeNotCalled
    /\ ingest_failed' = FALSE
    /\ spawn_failed' = FALSE
    /\ run_calls' = 0
    /\ run_page' = NoPage
    /\ run_commands' = CommandRegistry_new
    /\ pager_result' = NoResult
    /\ result' = NoResult

\* run_pager returns r: its locals (and what was moved into Pager::run) are
\* dropped
ReturnWith(r) ==
    /\ pc' = "returned"
    /\ result' = r
    /\ input' = Moved
    /\ p' = Pager_new(config)
    /\ commands' = CommandRegistry_new
    /\ try_value' = None
    /\ columns' = <<>>
    /\ data' = <<>>
    /\ drained' = FALSE
    /\ page' = NoPage
    /\ size_result' = SizeNotCalled
    /\ run_page' = NoPage
    /\ run_commands' = CommandRegistry_new

\* lines 42-75: try mode, the banner and the value the Try view starts from
TryIngest ==
    /\ pc = "classify"
    /\ config.start_in_try_mode
    /\ \E io_ok \in BOOLEAN :
          LET r == initial_value(input, io_ok) IN
          /\ ingest_failed' = (TryReadsStream(input) /\ ~io_ok)
          /\ IF r.ok
             THEN /\ p' = show_message(p, TryBanner)
                  /\ input' = Moved
                  /\ try_value' = Some(r.val)
                  /\ pc' = "try_spawn"
                  /\ UNCHANGED <<commands, columns, data, drained, page,
                                 size_result, run_page, run_commands, result>>
             ELSE ReturnWith(Err("InputIngestFailed"))
    /\ UNCHANGED <<invocations, arg, config, spawn_failed, run_calls, pager_result>>

\* lines 76-97: TryCmd::spawn with Some(initial_value); its error is returned
TrySpawn ==
    /\ pc = "try_spawn"
    /\ \E spawn_ok \in BOOLEAN :
          /\ spawn_failed' = ~spawn_ok
          /\ IF spawn_ok
             THEN /\ page' = Page_new(TryView_new(try_value.val), TRUE)
                  /\ pc' = "run"
                  /\ UNCHANGED <<input, p, commands, try_value, columns, data,
                                 drained, size_result, run_page, run_commands,
                                 result>>
             ELSE ReturnWith(Err("ViewSpawnError"))
    /\ UNCHANGED <<invocations, arg, config, ingest_failed, run_calls, pager_result>>

\* lines 99-110: the binary path
BinaryPath ==
    /\ pc = "classify"
    /\ ~config.start_in_try_mode
    /\ is_binary(input)
    /\ \E io_ok \in BOOLEAN :
          LET r == binary_view(input, io_ok) IN
          /\ ingest_failed' = (~r.panic /\ BinaryReadsStream(input) /\ ~io_ok)
          /\ IF r.panic
             THEN /\ pc' = "panicked"
                  /\ UNCHANGED <<input, p, commands, try_value, columns, data,
                                 drained, page, size_result, run_page,
                                 run_commands, result>>
             ELSE IF r.ok
             THEN /\ pc' = "run"
                  /\ p' = show_message(p, HelpBanner)
                  /\ input' = Moved
                  /\ page' = r.page
                  /\ UNCHANGED <<commands, try_value, columns, data, drained,
                                 size_result, run_page, run_commands, result>>
             ELSE ReturnWith(Err("InputIngestFailed"))
    /\ UNCHANGED <<invocations, arg, config, spawn_failed, run_calls, pager_result>>

\* lines 99-128 without the binary path: drain the pipeline, then the help,
\* preview or record page
CollectPath ==
    /\ pc = "classify"
    /\ ~config.start_in_try_mode
    /\ ~is_binary(input)
    /\ \E out \in collect_pipeline(input) :
          /\ ingest_failed' = ~out.ok
          /\ IF ~out.ok
             THEN ReturnWith(Err("InputIngestFailed"))
             ELSE /\ pc' = "run"
                  /\ input' = Moved
                  /\ drained' = TRUE
                  /\ columns' = out.columns
                  /\ data' = out.data
                  /\ p' = IF has_no_input(out.columns, out.data)
                          THEN p
                          ELSE show_message(p, HelpBanner)
                  /\ \E size \in IF RecordArm(out.columns, out.data) /\ config.tail
                                 THEN SizeOutcomes
                                 ELSE {SizeNotCalled} :
                        /\ size_result' = size
                        /\ page' = drained_page(out.columns, out.data,
                                                is_record(input), config, size)
                  /\ UNCHANGED <<commands, try_value, run_page, run_commands,
                                 result>>
    /\ UNCHANGED <<invocations, arg, config, spawn_failed, run_calls, pager_result>>

\* p.run(engine_state, stack, page, commands)
RunPager ==
    /\ pc = "run"
    /\ run_calls' = run_calls + 1
    /\ run_page' = page
    /\ run_commands' = commands
    /\ \E out \in Pager_run_outcomes : pager_result' = out
    /\ pc' = "ran"
    /\ UNCHANGED <<invocations, arg, input, config, p, commands, try_value, columns,
                   data, drained, page, size_result, ingest_failed, spawn_failed,
                   result>>

\* run_pager returns what Pager::run returned
Return ==
    /\ pc = "ran"
    /\ ReturnWith(run_pager_return(pager_result))
    /\ UNCHANGED <<invocations, arg, config, ingest_failed, spawn_failed, run_calls,
                   pager_result>>

Next ==
    \/ Invoke
    \/ TryIngest
    \/ TrySpawn
    \/ BinaryPath
    \/ CollectPath
    \/ RunPager
    \/ Return

Spec == Init /\ [][Next]_vars

(***************************************************************************)
(* Properties.                                                             *)
(***************************************************************************)

\* C1: the kind and the stackable flag of the initial frame follow the first
\* matching condition, in this order: try mode gives a stackable Try view
\* whatever the pipeline; else a Binary value or a ByteStream gives a stackable
\* Binary view and the pipeline is not drained by collect_pipeline; else a
\* drained pipeline with no columns and no rows gives the non-stackable Help
\* view; else one simple value gives a non-stackable Preview; else a stackable
\* Record view.
C1_ClassifierOrder ==
    page.present =>
        IF config.start_in_try_mode
        THEN page.kind = "Try" /\ page.stackable /\ ~drained
        ELSE IF arg.tag = "ByteStream" \/ (arg.tag = "Value" /\ arg.val.k = "binary")
        THEN page.kind = "Binary" /\ page.stackable /\ ~drained
        ELSE IF columns = <<>> /\ data = <<>>
        THEN page.kind = "Help" /\ ~page.stackable /\ drained
        ELSE IF /\ Len(data) = 1
                /\ Len(data[1]) = 1
                /\ data[1][1].k \notin {"record", "list"}
        THEN page.kind = "Preview" /\ ~page.stackable /\ drained
        ELSE page.kind = "Record" /\ page.stackable /\ drained

\* a single integer, try mode off: the first three conditions are passed over
\* and the fourth gives the Preview of "1"
C1_Witness ==
    /\ pc = "run"
    /\ ~config.start_in_try_mode
    /\ arg = PValue(VInt(1))
    /\ data = <<<<VInt(1)>>>>
    /\ page.present
    /\ page.kind = "Preview"
    /\ page.text = "1"
    /\ ~page.stackable

\* C2: when try mode is off and the pipeline is not binary, not empty after
\* draining and not one simple value, the initial frame is a stackable Record
\* view; its orientation is Left exactly when the input was a single record
\* value, and the default Top (rows) otherwise.
C2_RecordOrientation ==
    /\ ( /\ pc = "run"
         /\ ~config.start_in_try_mode
         /\ ~(arg.tag = "ByteStream" \/ (arg.tag = "Value" /\ arg.val.k = "binary"))
         /\ ~(columns = <<>> /\ data = <<>>)
         /\ ~(Len(data) = 1 /\ Len(data[1]) = 1
                /\ data[1][1].k \notin {"record", "list"}) )
       => (page.present /\ page.kind = "Record")
    /\ (page.present /\ page.kind = "Record")
       => /\ page.stackable
          /\ page.orientation =
                IF arg.tag = "Value" /\ arg.val.k = "record" THEN "Left" ELSE "Top"

\* the record {a: {a: 1}} drained to one row under the column a
C2_Witness ==
    /\ pc = "run"
    /\ arg = PValue(RecNested)
    /\ columns = <<"a">>
    /\ data = <<<<Rec1>>>>
    /\ page.kind = "Record"
    /\ page.stackable
    /\ page.orientation = "Left"

\* C3: in try mode the Try view is seeded with one value: nothing for Empty,
\* v itself for a single value v, the list of every element of a ListStream in
\* order, the binary of all bytes of a ByteStream.
C3_TrySeed ==
    LET seed == CASE arg.tag = "Empty" -> VNothing
                  [] arg.tag = "Value" -> arg.val
                  [] arg.tag = "ListStream" -> VList(arg.stream)
                  [] arg.tag = "ByteStream" -> VBinary(arg.bytes)
    IN /\ try_value.some => try_value = Some(seed)
       /\ (page.present /\ config.start_in_try_mode)
             => (page.kind = "Try" /\ page.value = seed)

\* a stream of two elements is materialized whole
C3_Witness ==
    /\ pc = "run"
    /\ config.start_in_try_mode
    /\ arg = ListStream(<<VInt(1), Rec1>>)
    /\ page.kind = "Try"
    /\ page.value = VList(<<VInt(1), Rec1>>)

\* C4: only InputIngestFailed and TerminalError make run_pager return an
\* error; a ViewSpawnError of the Try spawner is recovered and the pager runs.
C4_OnlyIngestAndTerminalAbort ==
    /\ (pc = "returned" /\ ~result.ok)
          => result.err \in {"InputIngestFailed", "TerminalError"}
    /\ (pc = "returned" /\ spawn_failed) => run_calls = 1

\* C5 as stated: on every path Pager::run is invoked exactly once with a
\* present page, and unreachable!() is never reached.
C5_ExactlyOneFrameOnEveryPath ==
    /\ pc # "panicked"
    /\ pc = "ran" => (run_calls = 1 /\ run_page.present)
    /\ pc = "returned" => run_calls = 1

\* C5, amended: unreachable!() is never reached; Pager::run is invoked at most
\* once, and then with a present page; an invocation that has returned ran the
\* pager exactly once unless it returned an error raised before the pager
\* (an ingest failure, or the error of TryCmd::spawn), and then not at all.
C5_OneFrameUnlessEarlyError ==
    /\ pc # "panicked"
    /\ run_calls <= 1
    /\ pc = "ran" => (run_calls = 1 /\ run_page.present)
    /\ pc \in {"run", "ran"} => page.present
    /\ pc = "returned" =>
          ((run_calls = 1) <=> ~(ingest_failed \/ spawn_failed))

\* the empty pipeline: the pager ran once, with the Help page
C5_Witness ==
    /\ pc = "ran"
    /\ arg = Empty
    /\ ~config.start_in_try_mode
    /\ run_calls = 1
    /\ run_page.present
    /\ run_page.kind = "Help"

\* C6: the registry holds exactly the aliases h->help, e->expand, q->quit,
\* q!->quit, T->try; each resolves to exactly one descriptor; every canonical
\* command is registered before any alias is created; no alias name is a
\* canonical command name.
C6_Aliases ==
    pc \in {"classify", "try_spawn", "run", "ran"} =>
       LET log == commands.log IN
       /\ commands.aliases =
             {[alias |-> "h", command |-> "help"],
              [alias |-> "e", command |-> "expand"],
              [alias |-> "q", command |-> "quit"],
              [alias |-> "q!", command |-> "quit"],
              [alias |-> "T", command |-> "try"]}
       /\ \A a \in commands.aliases :
             /\ Cardinality(resolve(commands, a.alias)) = 1
             /\ \A d \in resolve(commands, a.alias) : d.name = a.command
             /\ \A d \in commands.commands : d.name # a.alias
       /\ \A i \in 1..Len(log) :
             log[i].op = "alias" =>
                /\ \E j \in 1..(i - 1) :
                      log[j].op # "alias" /\ log[j].name = log[i].target
                /\ \A j \in 1..Len(log) : log[j].op # "alias" => j < i

\* the registry handed to Pager::run resolves T to try and q! to quit
C6_Witness ==
    /\ pc = "ran"
    /\ resolve(run_commands, "T")
          = {[name |-> "try", kind |-> "view", stackable |-> FALSE]}
    /\ resolve(run_commands, "q!")
          = {[name |-> "quit", kind |-> "reactive", stackable |-> FALSE]}

\* C7: every command is registered exactly once; nu and table are stackable
\* view spawners, expand, try and help non-stackable view spawners, quit the
\* only reactive command.
C7_CommandsOnce ==
    pc \in {"classify", "try_spawn", "run", "ran"} =>
       LET log == commands.log
           regs == {i \in 1..Len(log) : log[i].op # "alias"}
       IN /\ commands.commands =
                {[name |-> "nu", kind |-> "view", stackable |-> TRUE],
                 [name |-> "table", kind |-> "view", stackable |-> TRUE],
                 [name |-> "expand", kind |-> "view", stackable |-> FALSE],
                 [name |-> "try", kind |-> "view", stackable |-> FALSE],
                 [name |-> "help", kind |-> "view", stackable |-> FALSE],
                 [name |-> "quit", kind |-> "reactive", stackable |-> FALSE]}
          /\ \A i \in regs, j \in regs : log[i].name = log[j].name => i = j
          /\ \A i \in regs :
                [name |-> log[i].name, kind |-> log[i].op,
                 stackable |-> log[i].stackable] \in commands.commands

\* the registry handed to Pager::run: six commands from six registrations
C7_Witness ==
    /\ pc = "ran"
    /\ Cardinality(run_commands.commands) = 6
    /\ Cardinality({i \in 1..Len(run_commands.log) :
                        run_commands.log[i].op # "alias"}) = 6
    /\ [name |-> "try", kind |-> "view", stackable |-> FALSE]
          \in run_commands.commands

\* C8: when the pager was run, run_pager returns exactly what Pager::run
\* returned; the pager and the registry of an invocation are built in that
\* invocation: before Pager::run is called it has not been called, the
\* registry has received the eleven calls of this invocation only, and the
\* pager's message is one this invocation showed; once run_pager has returned
\* neither the pager nor the registry is left.
C8_ReturnsPagerResult ==
    /\ (pc = "returned" /\ run_calls = 1) => result = pager_result
    /\ pc = "returned" =>
          /\ commands = CommandRegistry_new
          /\ p = Pager_new(config)
          /\ page = NoPage
    /\ pc = "ran" => (result = NoResult /\ run_commands = commands)
    /\ pc \in {"classify", "try_spawn", "run"} =>
          /\ run_calls = 0
          /\ pager_result = NoResult
          /\ result = NoResult
          /\ Len(commands.log) = 11
    /\ pc = "classify" => p.message = ""
    /\ pc = "run" =>
          p.message = IF config.start_in_try_mode THEN TryBanner
                      ELSE IF page.kind = "Help" THEN "" ELSE HelpBanner

\* the second invocation returns the exit value of its own pager
C8_Witness ==
    /\ pc = "returned"
    /\ invocations = 2
    /\ run_calls = 1
    /\ pager_result = Ok(Some(VInt(1)))
    /\ result = Ok(Some(VInt(1)))

\* C9: the record view is tailed exactly when config.tail holds and size()
\* succeeded; without tail, or when size() fails, it is created untailed and
\* no error is raised; the Try, Binary, Help and Preview frames are never
\* tailed and size() is not consulted for them.
C9_TailFollow ==
    /\ (page.present /\ page.kind = "Record") =>
          /\ page.tailed <=> (config.tail /\ size_result.called /\ size_result.ok)
          /\ size_result.called <=> config.tail
          /\ page.tailed => page.viewport = <<size_result.w, size_result.h>>
          /\ pc = "run" => result = NoResult
    /\ (page.present /\ page.kind # "Record") =>
          (~page.tailed /\ ~size_result.called)

\* tail requested, size() read as 80 x 24: the record view is tailed
C9_Witness ==
    /\ pc = "run"
    /\ config.tail
    /\ size_result = SizeOk(80, 24)
    /\ page.kind = "Record"
    /\ page.tailed
    /\ Len(data) = 2

\* C10: when ingesting the pipeline fails, run_pager returns an error and
\* Pager::run is not invoked in that invocation; the pipeline is consumed
\* before the pager is run.
C10_IngestFailureAborts ==
    /\ ingest_failed =>
          /\ pc = "returned"
          /\ ~result.ok
          /\ run_calls = 0
          /\ ~page.present
    /\ (pc \in {"run", "ran"} \/ run_calls >= 1) =>
          (input = Moved /\ ~ingest_failed)
    /\ pc \in {"classify", "try_spawn"} => run_calls = 0

\* a ByteStream that cannot be read in try mode
C10_Witness ==
    /\ pc = "returned"
    /\ config.start_in_try_mode
    /\ arg = ByteStream(<<0, 255>>)
    /\ ingest_failed
    /\ ~result.ok
    /\ run_calls = 0

====
